---- MODULE Spec2Model ----
(***************************************************************************)
(* State-machine model of quickshell's process and local-socket IPC core:  *)
(*   Socket        (the spec's SocketChannel)  src/unnamed/part_003:15-90  *)
(*   SocketServer                               src/unnamed/part_003:92-203 *)
(*   Process       (the spec's ProcessController) src/src/io/process.hpp   *)
(*   QSWaylandSessionLock                         src/unnamed/part_001      *)
(*   QSWaylandSessionLockSurface                  src/unnamed/part_000      *)
(*   RootWrapper                          src/src/core/rootwrapper.cpp      *)
(*   qs_main (configuration selection)    src/src/core/main.cpp:57-212      *)
(* Every C++ method is a pure operator on a record holding the object's    *)
(* fields; every action applies one entry point (a property write or an    *)
(* event-loop callback) together with every call it makes.                 *)
(***************************************************************************)
EXTENDS Integers, Sequences, FiniteSets, TLC

VARIABLES ch, chOp, srv, srvOp, env, proc, procOp, session, sessionOp, root, rootOp, cfg

vars == <<ch, chOp, srv, srvOp, env, proc, procOp, session, sessionOp, root, rootOp, cfg>>

\* ------------------------------------------------------------------ bounds
\* Largest number of buffered, not yet parsed, chunks kept in the model.
MaxBuf == 2
\* Largest number of QLocalSocket objects awaiting their deferred deletion.
MaxDoomed == 2
\* Largest number of handler instances a server accepts in the model.
MaxConns == 2
\* Largest number of EngineGeneration objects ever allocated in the model.
MaxGen == 4
\* Largest number of lines of a configuration manifest in the model.
MaxLines == 2

\* Endpoint paths; "" is the empty QString.
Paths == {"", "a", "b"}

\* ------------------------------------------------------- Socket (channel)
\* State of the QLocalSocket held in Socket::socket ("null": nullptr).
\*   connecting: connectToServer() has not completed yet
\*   open:       connected, QIODevice open
\*   closing:    disconnectFromServer() is waiting for unwritten bytes
\*   failed:     the connect attempt failed; the object is unconnected
SockStates == {"null", "connecting", "open", "closing", "failed"}

\* What a signal handler installed by the embedding caller does while the
\* signal is being delivered (Qt delivers direct connections synchronously).
\* sig names the signal the handler is attached to.
NoHook == [sig |-> "none", op |-> "none", v |-> FALSE, p |-> ""]

Hooks ==
    {NoHook}
    \cup [sig : {"state", "path"}, op : {"setConnected"}, v : BOOLEAN, p : {""}]
    \cup [sig : {"state", "path"}, op : {"setPath"}, v : {FALSE}, p : Paths]

\* Outcome of QLocalSocket::connectToServer: completes at once, fails at
\* once, or stays pending until a later readiness event.
ConnOutcomes == {"ok", "fail", "pending"}

\* Outcome of QLocalSocket::disconnectFromServer on an open socket: the
\* disconnected() signal is emitted inside the call, or on a later event.
DiscOutcomes == {"sync", "async"}

\* Everything outside the object that one entry point depends on: the
\* caller's signal handler and the socket layer's answers, first for the
\* calls of the entry point itself, then for those made by the handler.
Envs == [hk : Hooks, conn : ConnOutcomes, disc : DiscOutcomes,
         hconn : ConnOutcomes, hdisc : DiscOutcomes]

\* The environment seen by calls made from inside a signal handler: their
\* own signals run no further handler.
Inner(e) == [e EXCEPT !.hk = NoHook, !.conn = e.hconn, !.disc = e.hdisc]

\* The environments whose handler, if any, is attached to a signal in sigs.
EnvsOn(sigs) == {e \in Envs : e.hk.sig \in sigs \cup {"none"}}

QuietEnv == [hk |-> NoHook, conn |-> "pending", disc |-> "async",
             hconn |-> "pending", hdisc |-> "async"]

\* Fields of a freshly constructed Socket, followed by the bookkeeping of
\* the current step: sockets awaiting deleteLater (doomed), sockets neither
\* held nor scheduled for deletion (orphans), and per-step counts of connect
\* attempts, close requests and emitted signals. requested is the value of
\* the caller's most recent write to the connected property. seen lists, for
\* every connectionStateChanged emitted in the step, what a slot reading the
\* object at that moment observes.
NewSocket ==
    [mPath |-> "", socket |-> "null", connected |-> FALSE,
     disconnecting |-> FALSE, targetConnected |-> FALSE, buffer |-> 0,
     doomed |-> 0, orphans |-> 0, requested |-> FALSE,
     attempts |-> 0, heldAttempts |-> 0, closeReqs |-> 0,
     stateEvents |-> 0, pathEvents |-> 0, reconnects |-> 0, seen |-> <<>>]

\* Start of an entry point: the per-step counts start from zero.
Fresh(s) ==
    [s EXCEPT !.attempts = 0, !.heldAttempts = 0, !.closeReqs = 0,
              !.stateEvents = 0, !.pathEvents = 0, !.reconnects = 0,
              !.seen = <<>>]

RECURSIVE RunHook(_, _, _)

\* emit connectionStateChanged(): the slots run on the object as it is now.
EmitConnectionStateChanged(s, ev, e) ==
    RunHook([s EXCEPT !.stateEvents = @ + 1,
                      !.seen = Append(@, [ev |-> ev,
                                          connected |-> s.connected,
                                          disconnecting |-> s.disconnecting,
                                          buffer |-> s.buffer,
                                          held |-> s.socket # "null"])],
            e, "state")

\* Socket::onSocketConnected that leaves the disconnecting flag as it was.
Mut_onSocketConnected_keepFlag(s, e) ==
    EmitConnectionStateChanged([s EXCEPT !.buffer = 0,
                                         !.connected = TRUE,
                                         !.targetConnected = FALSE],
                               "connected", e)

\* Socket::onSocketConnected
Socket_onSocketConnected(s, e) ==
    EmitConnectionStateChanged([s EXCEPT !.buffer = 0,
                                         !.connected = TRUE,
                                         !.targetConnected = FALSE,
                                         !.disconnecting = FALSE],
                               "connected", e)

\* Socket::setSocket(socket); st is the state of the socket handed in.
Socket_setSocket(s, st, e) ==
    LET s1 == [s EXCEPT !.doomed = IF s.socket # "null" THEN @ + 1 ELSE @,
                        !.socket = st]
    IN  IF st # "null" /\ st = "open" THEN Socket_onSocketConnected(s1, e) ELSE s1

\* Socket::connectPathSocket, with QLocalSocket::connectToServer's outcome.
Socket_connectPathSocket(s, e) ==
    IF s.mPath # ""
    THEN LET s1 == Socket_setSocket(
                       [s EXCEPT !.attempts = @ + 1,
                                 !.heldAttempts =
                                     IF s.socket # "null" THEN @ + 1 ELSE @],
                       "connecting", e)
         IN  CASE e.conn = "ok" ->
                      Socket_onSocketConnected([s1 EXCEPT !.socket = "open"], e)
               [] e.conn = "fail" -> [s1 EXCEPT !.socket = "failed"]
               [] OTHER -> s1
    ELSE s

\* Socket::onSocketDisconnected
Socket_onSocketDisconnected(s, e) ==
    LET s1 == [s EXCEPT !.connected = FALSE,
                        !.disconnecting = FALSE,
                        !.doomed = @ + 1,
                        !.socket = "null",
                        !.buffer = 0]
        s2 == EmitConnectionStateChanged(s1, "disconnected", e)
    IN  IF s2.targetConnected
        THEN Socket_connectPathSocket([s2 EXCEPT !.reconnects = @ + 1], e)
        ELSE s2

\* QLocalSocket::disconnectFromServer as called by Socket::setConnected: an
\* open socket emits disconnected() inside the call or starts closing; a
\* socket that is not open emits nothing.
QLocalSocket_disconnectFromServer(s, e) ==
    IF s.socket = "open"
    THEN IF e.disc = "sync"
         THEN Socket_onSocketDisconnected(s, e)
         ELSE [s EXCEPT !.socket = "closing"]
    ELSE s

\* Socket::setConnected that requests a close only of a connected socket.
Mut_setConnected_connectedOnly(s, c, e) ==
    LET s1 == [s EXCEPT !.targetConnected = c, !.requested = c]
    IN  IF ~c
        THEN IF s1.connected /\ ~s1.disconnecting
             THEN QLocalSocket_disconnectFromServer(
                      [s1 EXCEPT !.disconnecting = TRUE,
                                 !.closeReqs = @ + 1], e)
             ELSE s1
        ELSE IF s1.socket = "null"
             THEN Socket_connectPathSocket(s1, e)
             ELSE s1

\* Socket::setConnected
Socket_setConnected(s, c, e) ==
    LET s1 == [s EXCEPT !.targetConnected = c, !.requested = c]
    IN  IF ~c
        THEN IF s1.socket # "null" /\ ~s1.disconnecting
             THEN QLocalSocket_disconnectFromServer(
                      [s1 EXCEPT !.disconnecting = TRUE,
                                 !.closeReqs = @ + 1], e)
             ELSE s1
        ELSE IF s1.socket = "null"
             THEN Socket_connectPathSocket(s1, e)
             ELSE s1

\* Socket::setPath that rejects only an unchanged path.
Mut_setPath_noReject(s, p, e) ==
    IF p = s.mPath THEN s
    ELSE LET s1 == RunHook([s EXCEPT !.mPath = p, !.pathEvents = @ + 1],
                           e, "path")
         IN  IF s1.targetConnected /\ s1.socket = "null"
             THEN Socket_connectPathSocket(s1, e)
             ELSE s1

\* Socket::setPath that records the path and never connects.
Mut_setPath_noConnect(s, p, e) ==
    IF (s.connected /\ ~s.disconnecting) \/ p = s.mPath THEN s
    ELSE RunHook([s EXCEPT !.mPath = p, !.pathEvents = @ + 1], e, "path")

\* Socket::setPath
Socket_setPath(s, p, e) ==
    IF (s.connected /\ ~s.disconnecting) \/ p = s.mPath THEN s
    ELSE LET s1 == RunHook([s EXCEPT !.mPath = p, !.pathEvents = @ + 1],
                           e, "path")
         IN  IF s1.targetConnected /\ s1.socket = "null"
             THEN Socket_connectPathSocket(s1, e)
             ELSE s1

\* A handler of signal sig, run while the signal is delivered.
RunHook(s, e, sig) ==
    IF e.hk.sig # sig THEN s
    ELSE CASE e.hk.op = "setConnected" -> Socket_setConnected(s, e.hk.v, Inner(e))
           [] e.hk.op = "setPath" -> Socket_setPath(s, e.hk.p, Inner(e))
           [] OTHER -> s

\* Socket::write: forwards to the held socket, no field of Socket changes.
Socket_write(s) == s

\* ---------------------------------------------------- channel actions
ChOp(name, p, v, e) == [op |-> name, p |-> p, v |-> v, hk |-> e.hk]

ChStep(n, label) ==
    /\ n.doomed <= MaxDoomed
    /\ ch' = n
    /\ chOp' = label
    /\ UNCHANGED <<srv, srvOp, env, proc, procOp, session, sessionOp, root, rootOp, cfg>>

\* QML writes Socket.path.
SetPath ==
    \E p \in Paths, e \in Envs :
        ChStep(Socket_setPath(Fresh(ch), p, e), ChOp("setPath", p, FALSE, e))

\* QML writes Socket.connected.
SetConnected ==
    \E c \in BOOLEAN, e \in EnvsOn({"state"}) :
        ChStep(Socket_setConnected(Fresh(ch), c, e),
               ChOp("setConnected", "", c, e))

\* QML calls Socket.write().
Write ==
    ChStep(Socket_write(Fresh(ch)), ChOp("write", "", FALSE, QuietEnv))

\* A pending connect completes: connected() is emitted, or the attempt fails
\* (errorOccurred is forwarded to Socket::error; no slot of Socket runs).
ConnectDone ==
    /\ ch.socket = "connecting"
    /\ \E ok \in BOOLEAN, e \in EnvsOn({"state"}) :
        ChStep(IF ok
               THEN Socket_onSocketConnected(
                        [Fresh(ch) EXCEPT !.socket = "open"], e)
               ELSE [Fresh(ch) EXCEPT !.socket = "failed"],
               ChOp("connectDone", "", ok, e))

\* disconnected() of the held socket: the peer closed an open connection, or
\* a close requested earlier has completed.
Disconnected ==
    /\ ch.socket \in {"open", "closing"}
    /\ \E e \in EnvsOn({"state"}) :
        ChStep(Socket_onSocketDisconnected(Fresh(ch), e),
               ChOp("disconnected", "", FALSE, e))

\* SocketServer::onNewConnection hands an accepted, open connection to a
\* handler that is not connected.
ServerSetSocket ==
    /\ ~ch.connected
    /\ \E e \in EnvsOn({"state"}) :
        ChStep(Socket_setSocket(Fresh(ch), "open", e),
               ChOp("setSocket", "", FALSE, e))

\* readyRead() of the held socket: DataStream::onBytesAvailable appends to
\* the buffer and the parser takes what it can (everything, or nothing yet).
BytesAvailable ==
    /\ ch.socket \in {"open", "closing"}
    /\ \E keep \in 0..MaxBuf :
        ChStep([Fresh(ch) EXCEPT !.buffer = keep],
               ChOp("readyRead", "", FALSE, QuietEnv))

\* The event loop runs the deferred deletions.
DeferredDelete ==
    /\ ch.doomed > 0
    /\ ChStep([Fresh(ch) EXCEPT !.doomed = 0],
              ChOp("deferredDelete", "", FALSE, QuietEnv))

NextChannel ==
    \/ SetPath
    \/ SetConnected
    \/ Write
    \/ ConnectDone
    \/ Disconnected
    \/ ServerSetSocket
    \/ BytesAvailable
    \/ DeferredDelete

\* ---------------------------------------------------------- SocketServer
\* Handler components the embedding caller can assign ("null": nullptr).
Handlers == {"null", "h1", "h2"}

\* A file at an endpoint path: absent, the socket file of a listener of this
\* server, or a file this server did not create.
FileKinds == {"none", "own", "foreign"}

FilePaths == Paths \ {""}

\* What QQmlComponent::create returns for the handler component: nothing, an
\* object that is no Socket, a Socket without connection, a Socket whose own
\* connect is still pending, or a Socket whose own connect already completed
\* while it was being created.
FactoryOutcomes ==
    {"nothing", "object", "socket", "connectingSocket", "connectedSocket"}

\* The socket layer's answers within one entry point: whether listen()
\* succeeds, and whether the first and the second QFile::remove succeed.
SrvEnvs == [listen : BOOLEAN, rm : BOOLEAN, rm2 : BOOLEAN]

NoGate == [called |-> FALSE, noListener |-> FALSE, postReload |-> FALSE,
           activeTarget |-> FALSE, pathSet |-> FALSE, handlerSet |-> FALSE]

\* Fields of a freshly constructed SocketServer; bound is the path the
\* listener listens on ("" when it does not listen); zombies are the bound
\* paths of listeners awaiting deleteLater; files is the file system at the
\* endpoint paths. The remaining fields describe the current step: the
\* conditions read when enableServer was entered (gate), whether listen()
\* or a file removal failed, how many handlers were scheduled for deletion,
\* how often activeStatusChanged was emitted, which kinds of file were
\* removed, and how many pending connections (dropped) and created objects
\* (discarded) were scheduled for deletion.
NewServer ==
    [server |-> FALSE, bound |-> "", postReload |-> FALSE,
     activeTarget |-> FALSE, mPath |-> "", mHandler |-> "null",
     mSockets |-> <<>>, zombies |-> {}, alive |-> TRUE, crashed |-> FALSE,
     files |-> [p \in FilePaths |-> "none"],
     gate |-> NoGate, listenFailed |-> FALSE, rmFailed |-> FALSE,
     torn |-> 0, activeEvents |-> 0, removed |-> {}, disabled |-> FALSE,
     dropped |-> 0, discarded |-> 0]

FreshSrv(s) ==
    [s EXCEPT !.gate = NoGate, !.listenFailed = FALSE, !.rmFailed = FALSE,
              !.torn = 0, !.activeEvents = 0, !.removed = {},
              !.disabled = FALSE, !.dropped = 0, !.discarded = 0]

\* SocketServer::isActive
SocketServer_isActive(s) == s.server

\* SocketServer::isActivatable without the handler condition.
Mut_isActivatable_noHandler(s) ==
    ~s.server /\ s.postReload /\ s.activeTarget /\ s.mPath # ""

\* SocketServer::isActivatable
SocketServer_isActivatable(s) ==
    ~s.server /\ s.postReload /\ s.activeTarget /\ s.mPath # ""
    /\ s.mHandler # "null"

\* QFile::exists(mPath) && !QFile::remove(mPath), lines 169-173.
RemoveSocketFile(s, rmOk) ==
    IF s.mPath # "" /\ s.files[s.mPath] # "none"
    THEN IF rmOk
         THEN [s EXCEPT !.removed = @ \cup {s.files[s.mPath]},
                        !.files[s.mPath] = "none"]
         ELSE [s EXCEPT !.rmFailed = TRUE]
    ELSE s

\* SocketServer::disableServer that keeps the accepted handlers.
Mut_disableServer_keepSockets(s, rmOk) ==
    LET wasActive == s.server
        s1 == IF s.server
              THEN [s EXCEPT !.zombies = @ \cup {s.bound},
                             !.server = FALSE,
                             !.bound = "",
                             !.disabled = TRUE]
              ELSE s
        s2 == RemoveSocketFile(s1, rmOk)
    IN  IF wasActive THEN [s2 EXCEPT !.activeEvents = @ + 1] ELSE s2

\* SocketServer::disableServer
SocketServer_disableServer(s, rmOk) ==
    LET wasActive == s.server
        s1 == IF s.server
              THEN [s EXCEPT !.torn = @ + Len(s.mSockets),
                             !.mSockets = <<>>,
                             !.zombies = @ \cup {s.bound},
                             !.server = FALSE,
                             !.bound = "",
                             !.disabled = TRUE]
              ELSE s
        s2 == RemoveSocketFile(s1, rmOk)
    IN  IF wasActive THEN [s2 EXCEPT !.activeEvents = @ + 1] ELSE s2

\* QLocalServer::listen(mPath): binding fails when a file is in the way
\* (address in use) or for a reason of the file system's (permission).
ListenSucceeds(s, e) == e.listen /\ s.files[s.mPath] = "none"

\* SocketServer::enableServer that keeps the listener after a failed listen.
Mut_enableServer_noRollback(s, e) ==
    LET s1 == SocketServer_disableServer(
                  [s EXCEPT !.gate =
                      [called |-> TRUE, noListener |-> ~s.server,
                       postReload |-> s.postReload,
                       activeTarget |-> s.activeTarget,
                       pathSet |-> s.mPath # "",
                       handlerSet |-> s.mHandler # "null"]], e.rm)
        s2 == [s1 EXCEPT !.server = TRUE]
        s3 == IF ListenSucceeds(s2, e)
              THEN [s2 EXCEPT !.bound = s2.mPath, !.files[s2.mPath] = "own"]
              ELSE [s2 EXCEPT !.listenFailed = TRUE]
    IN  [s3 EXCEPT !.activeTarget = FALSE, !.activeEvents = @ + 1]

\* SocketServer::enableServer; gate records what the five conditions were on
\* entry.
SocketServer_enableServer(s, e) ==
    LET s1 == SocketServer_disableServer(
                  [s EXCEPT !.gate =
                      [called |-> TRUE, noListener |-> ~s.server,
                       postReload |-> s.postReload,
                       activeTarget |-> s.activeTarget,
                       pathSet |-> s.mPath # "",
                       handlerSet |-> s.mHandler # "null"]], e.rm)
        s2 == [s1 EXCEPT !.server = TRUE]
        s3 == IF ListenSucceeds(s2, e)
              THEN [s2 EXCEPT !.bound = s2.mPath, !.files[s2.mPath] = "own"]
              ELSE SocketServer_disableServer(
                       [s2 EXCEPT !.listenFailed = TRUE], e.rm2)
    IN  [s3 EXCEPT !.activeTarget = FALSE, !.activeEvents = @ + 1]

\* SocketServer::onPostReload
SocketServer_onPostReload(s, e) ==
    LET s1 == [s EXCEPT !.postReload = TRUE]
    IN  IF SocketServer_isActivatable(s1)
        THEN SocketServer_enableServer(s1, e) ELSE s1

\* SocketServer::setActive
SocketServer_setActive(s, active, e) ==
    LET s1 == [s EXCEPT !.activeTarget = active]
    IN  IF active = s1.server THEN s1
        ELSE IF active
             THEN IF SocketServer_isActivatable(s1)
                  THEN SocketServer_enableServer(s1, e) ELSE s1
             ELSE SocketServer_disableServer(s1, e.rm)

\* SocketServer::setPath
SocketServer_setPath(s, path, e) ==
    IF s.mPath = path THEN s
    ELSE LET s1 == [s EXCEPT !.mPath = path]
         IN  IF SocketServer_isActivatable(s1)
             THEN SocketServer_enableServer(s1, e) ELSE s1

\* SocketServer::setHandler
SocketServer_setHandler(s, handler) == [s EXCEPT !.mHandler = handler]

\* The Socket a handler component creates: as constructed, or connecting
\* or already connected through its own path.
CreatedSocket(out) ==
    IF out \in {"connectingSocket", "connectedSocket"}
    THEN Fresh(Socket_setConnected(
                   Socket_setPath(NewSocket, "b", QuietEnv), TRUE,
                   [QuietEnv EXCEPT !.conn = IF out = "connectedSocket"
                                             THEN "ok" ELSE "pending"]))
    ELSE NewSocket

\* SocketServer::onNewConnection that keeps whatever object was created.
Mut_onNewConnection_keepObject(s, out) ==
    IF s.mHandler = "null" THEN [s EXCEPT !.crashed = TRUE]
    ELSE IF out = "nothing" THEN [s EXCEPT !.dropped = 1]
    ELSE LET instance == CreatedSocket(out)
         IN  IF instance.connected
             THEN [s EXCEPT !.mSockets = Append(@, instance),
                            !.dropped = 1]
             ELSE [s EXCEPT !.mSockets =
                       Append(@, Fresh(Socket_setSocket(instance, "open",
                                                        QuietEnv)))]

\* SocketServer::onNewConnection without the isConnected() test.
Mut_onNewConnection_alwaysInstall(s, out) ==
    IF s.mHandler = "null" THEN [s EXCEPT !.crashed = TRUE]
    ELSE IF out \in {"nothing", "object"}
    THEN [s EXCEPT !.dropped = 1,
                   !.discarded = IF out = "object" THEN 1 ELSE 0]
    ELSE LET instance == CreatedSocket(out)
         IN  [s EXCEPT !.mSockets =
                 Append(@, Fresh(Socket_setSocket(instance, "open",
                                                  QuietEnv)))]

\* SocketServer::onNewConnection for one pending connection; out is what
\* the handler component creates. Calling create() through a null mHandler
\* ends the program.
SocketServer_onNewConnection(s, out) ==
    IF s.mHandler = "null" THEN [s EXCEPT !.crashed = TRUE]
    ELSE IF out \in {"nothing", "object"}
    THEN [s EXCEPT !.dropped = 1,
                   !.discarded = IF out = "object" THEN 1 ELSE 0]
    ELSE LET instance == CreatedSocket(out)
         IN  IF instance.connected
             THEN [s EXCEPT !.mSockets = Append(@, instance),
                            !.dropped = 1]
             ELSE [s EXCEPT !.mSockets =
                       Append(@, Fresh(Socket_setSocket(instance, "open",
                                                        QuietEnv)))]

\* QLocalServer::~QLocalServer of the listeners in zs: a listener that still
\* listens closes and removes the file at the path it is bound to.
CloseListeners(s, zs) ==
    [s EXCEPT !.files = [p \in FilePaths |->
                            IF p \in zs THEN "none" ELSE s.files[p]],
              !.zombies = @ \ zs]

\* SocketServer::~SocketServer, then QObject deletes the children.
SocketServer_destroy(s, e) ==
    LET s1 == SocketServer_disableServer(s, e.rm)
    IN  [CloseListeners(s1, s1.zombies) EXCEPT !.alive = FALSE]

\* ----------------------------------------------------- server actions
SrvOp(name, p, v) == [op |-> name, p |-> p, v |-> v]

SrvStep(n, label) ==
    /\ srv.alive /\ ~srv.crashed
    /\ srv' = n
    /\ srvOp' = label
    /\ UNCHANGED <<ch, chOp, env, proc, procOp, session, sessionOp, root, rootOp, cfg>>

\* EngineGeneration signals the end of a reload.
OnPostReload ==
    \E e \in SrvEnvs :
        SrvStep(SocketServer_onPostReload(FreshSrv(srv), e),
                SrvOp("onPostReload", "", FALSE))

\* QML writes SocketServer.active.
SetActive ==
    \E a \in BOOLEAN, e \in SrvEnvs :
        SrvStep(SocketServer_setActive(FreshSrv(srv), a, e),
                SrvOp("setActive", "", a))

\* QML writes SocketServer.path.
SrvSetPath ==
    \E p \in Paths, e \in SrvEnvs :
        SrvStep(SocketServer_setPath(FreshSrv(srv), p, e),
                SrvOp("setPath", p, FALSE))

\* QML writes SocketServer.handler.
SetHandler ==
    \E h \in Handlers :
        SrvStep(SocketServer_setHandler(FreshSrv(srv), h),
                SrvOp("setHandler", h, FALSE))

\* newConnection() of a listening QLocalServer.
NewConnection ==
    /\ srv.server /\ srv.bound # ""
    /\ Len(srv.mSockets) < MaxConns
    /\ \E out \in FactoryOutcomes :
        SrvStep(SocketServer_onNewConnection(FreshSrv(srv), out),
                SrvOp("newConnection", out, FALSE))

\* The SocketServer is destroyed.
Destroy ==
    \E e \in SrvEnvs :
        SrvStep(SocketServer_destroy(FreshSrv(srv), e),
                SrvOp("destroy", "", FALSE))

\* The event loop runs the deferred deletion of replaced listeners.
SrvDeferredDelete ==
    /\ srv.zombies # {}
    /\ SrvStep(CloseListeners(FreshSrv(srv), srv.zombies),
               SrvOp("deferredDelete", "", FALSE))

\* Another program creates a file at an endpoint path.
ForeignFile ==
    \E p \in FilePaths :
        /\ srv.files[p] = "none"
        /\ SrvStep([FreshSrv(srv) EXCEPT !.files[p] = "foreign"],
                   SrvOp("foreignFile", p, FALSE))

\* ------------------------------------- Process: environment resolution
\* Names and values of environment variables.
Keys == {"K1", "K2"}
Vals == {"x", "y"}
\* QMap<QString, QVariant> iterates its keys in sorted order.
KeyOrder == <<"K1", "K2">>
\* The null QVariant of an environment entry (`REMOVED: null`).
Null == "<null>"

\* Maps from some of the keys to values in V: a QProcessEnvironment, or the
\* environment property.
EnvMaps(V) == UNION {[D -> V] : D \in SUBSET Keys}
EmptyEnv == [k \in {} |-> "x"]

\* QProcessEnvironment::insert and ::remove
EnvInsert(e, k, v) == [j \in DOMAIN e \cup {k} |-> IF j = k THEN v ELSE e[j]]
EnvRemove(e, k) == [j \in DOMAIN e \ {k} |-> e[j]]

RECURSIVE ApplyOverlay(_, _, _, _, _)
\* The entries of the environment property applied one by one, from the
\* i-th key on, to the environment built so far.
ApplyOverlay(e, sysenv, overlay, clear, i) ==
    IF i > Len(KeyOrder) THEN e
    ELSE LET k == KeyOrder[i]
             e1 == IF k \notin DOMAIN overlay THEN e
                   ELSE IF overlay[k] # Null THEN EnvInsert(e, k, overlay[k])
                   ELSE IF ~clear THEN EnvRemove(e, k)
                   ELSE IF k \in DOMAIN sysenv
                        THEN EnvInsert(e, k, sysenv[k])
                        ELSE e
         IN  ApplyOverlay(e1, sysenv, overlay, clear, i + 1)

\* Environment resolution in which null removes the variable whatever
\* clearEnvironment says.
Mut_MergeEnv_nullRemoves(sysenv, overlay, clear) ==
    ApplyOverlay(IF clear THEN EmptyEnv ELSE sysenv, sysenv, overlay, FALSE, 1)

\* The environment a process is started with: the system environment, or
\* nothing when clearEnvironment is set, with the environment property
\* applied to it.
MergeEnv(sysenv, overlay, clear) ==
    ApplyOverlay(IF clear THEN EmptyEnv ELSE sysenv, sysenv, overlay, clear, 1)

\* One resolution: its inputs, and the result once it has been computed.
EnvInputs ==
    [ambient : EnvMaps(Vals), overlay : EnvMaps(Vals \cup {Null}),
     clear : BOOLEAN, merged : {EmptyEnv}, resolved : {FALSE}]

\* The system environment of the model's quickshell process.
SystemEnv == [k \in {"K1"} |-> "x"]

NoResolution ==
    [ambient |-> SystemEnv, overlay |-> EmptyEnv, clear |-> FALSE,
     merged |-> EmptyEnv, resolved |-> FALSE]

\* The environment of a process being started is resolved.
ResolveEnvironment ==
    /\ ~env.resolved
    /\ env' = [env EXCEPT !.merged = MergeEnv(env.ambient, env.overlay,
                                              env.clear),
                          !.resolved = TRUE]
    /\ UNCHANGED <<ch, chOp, srv, srvOp, proc, procOp, session, sessionOp, root, rootOp, cfg>>

\* ------------------------------------------------------------- Process
\* Values of the command property; <<>> is the empty list.
Commands == {<<>>, <<"c1">>, <<"c2">>}
\* Values of the workingDirectory property; "" stands for quickshell's own
\* working directory, GlobalDir.
Dirs == {"", "d"}
GlobalDir == "cwd"
\* Values of the environment property used by the Process model.
ProcOverlays == {EmptyEnv, [k \in {"K1"} |-> Null]}
\* DataStreamParser pointers ("null": nullptr).
Parsers == {"null", "p1"}
Streams == {"stdout", "stderr"}
Signals == {"SIGTERM", "SIGKILL"}

\* Process::process == nullptr. A running child is described by its pid,
\* what it was started with, which of its channels are open, and whether a
\* termination request is pending.
NoProcess ==
    [pid |-> 0, command |-> <<>>, dir |-> "", environment |-> EmptyEnv,
     stdinOpen |-> FALSE, open |-> [st \in Streams |-> FALSE],
     terminating |-> FALSE]

\* Fields of a freshly constructed Process. lastPid is the pid of the most
\* recently started child. The remaining fields describe the current
\* step: processes started, signals delivered, streams read, writes that
\* reached stdin, errors reported.
NewProcess ==
    [process |-> NoProcess, mCommand |-> <<>>, mWorkingDirectory |-> "",
     mEnvironment |-> EmptyEnv, mStdoutParser |-> "null",
     mStderrParser |-> "null", targetRunning |-> FALSE,
     mStdinEnabled |-> FALSE, mClearEnvironment |-> FALSE,
     lastPid |-> 0,
     spawns |-> 0, signals |-> <<>>, reads |-> {}, written |-> 0,
     errors |-> 0]

FreshProc(s) ==
    [s EXCEPT !.spawns = 0, !.signals = <<>>, !.reads = {}, !.written = 0,
              !.errors = 0]

\* Process::isRunning
Process_isRunning(s) == s.process # NoProcess

ParserField(st) == IF st = "stdout" THEN "mStdoutParser" ELSE "mStderrParser"

\* The child started from the current properties.
StartedProcess(s) ==
    [pid |-> IF s.lastPid = 1 THEN 2 ELSE 1,
     command |-> s.mCommand,
     dir |-> IF s.mWorkingDirectory = "" THEN GlobalDir
             ELSE s.mWorkingDirectory,
     environment |-> MergeEnv(SystemEnv, s.mEnvironment, s.mClearEnvironment),
     stdinOpen |-> s.mStdinEnabled,
     open |-> [st \in Streams |-> s[ParserField(st)] # "null"],
     terminating |-> FALSE]

\* Process::startProcessIfReady that does not look whether a process runs.
Mut_startProcessIfReady_whileRunning(s, ok) ==
    IF ~s.targetRunning \/ s.mCommand = <<>> THEN s
    ELSE IF ~ok THEN [s EXCEPT !.targetRunning = FALSE, !.errors = @ + 1]
    ELSE [s EXCEPT !.targetRunning = FALSE,
                   !.spawns = @ + 1,
                   !.process = StartedProcess(s),
                   !.lastPid = StartedProcess(s).pid]

\* Process::startProcessIfReady; ok tells whether the spawn succeeds.
Process_startProcessIfReady(s, ok) ==
    IF Process_isRunning(s) \/ ~s.targetRunning \/ s.mCommand = <<>> THEN s
    ELSE IF ~ok THEN [s EXCEPT !.targetRunning = FALSE, !.errors = @ + 1]
    ELSE [s EXCEPT !.targetRunning = FALSE,
                   !.spawns = @ + 1,
                   !.process = StartedProcess(s),
                   !.lastPid = StartedProcess(s).pid]

\* Process::setRunning
Process_setRunning(s, running, ok) ==
    LET s1 == [s EXCEPT !.targetRunning = running]
    IN  IF running THEN Process_startProcessIfReady(s1, ok)
        ELSE IF Process_isRunning(s1) /\ ~s1.process.terminating
        THEN [s1 EXCEPT !.process.terminating = TRUE,
                        !.signals = Append(@, "SIGTERM")]
        ELSE s1

\* Process::signal
Process_signal(s, sig) ==
    IF Process_isRunning(s) THEN [s EXCEPT !.signals = Append(@, sig)] ELSE s

\* Process::write
Process_write(s) ==
    IF Process_isRunning(s) /\ s.process.stdinOpen
    THEN [s EXCEPT !.written = @ + 1]
    ELSE s

\* Process::setCommand that hands the new command to the running process.
Mut_setCommand_affectsRunning(s, command, ok) ==
    IF command = s.mCommand THEN s
    ELSE Process_startProcessIfReady(
             [s EXCEPT !.mCommand = command,
                       !.process.command = IF Process_isRunning(s)
                                           THEN command ELSE @], ok)

\* Process::setCommand
Process_setCommand(s, command, ok) ==
    IF command = s.mCommand THEN s
    ELSE Process_startProcessIfReady([s EXCEPT !.mCommand = command], ok)

\* Process::setWorkingDirectory
Process_setWorkingDirectory(s, dir) == [s EXCEPT !.mWorkingDirectory = dir]

\* Process::setEnvironment
Process_setEnvironment(s, e) == [s EXCEPT !.mEnvironment = e]

\* Process::setEnvironmentCleared
Process_setEnvironmentCleared(s, cleared) ==
    [s EXCEPT !.mClearEnvironment = cleared]

\* Setting a parser in which a new parser reopens the stream.
Mut_SetParser_reopens(s, st, parser) ==
    IF parser = s[ParserField(st)] THEN s
    ELSE [s EXCEPT ![ParserField(st)] = parser,
                   !.process.open[st] = Process_isRunning(s)
                                        /\ parser # "null"]

\* Process::setStdoutParser / setStderrParser: a parser set to null closes
\* the running process's channel.
SetParser(s, st, parser) ==
    IF parser = s[ParserField(st)] THEN s
    ELSE [s EXCEPT ![ParserField(st)] = parser,
                   !.process.open[st] = IF parser = "null" THEN FALSE ELSE @]

\* Process::setStdoutParser
Process_setStdoutParser(s, parser) == SetParser(s, "stdout", parser)

\* Process::setStderrParser
Process_setStderrParser(s, parser) == SetParser(s, "stderr", parser)

\* Process::onStdoutParserDestroyed / onStderrParserDestroyed
Process_onParserDestroyed(s, st) == SetParser(s, st, "null")

\* Process::setStdinEnabled
Process_setStdinEnabled(s, enabled) ==
    IF enabled = s.mStdinEnabled THEN s
    ELSE [s EXCEPT !.mStdinEnabled = enabled,
                   !.process.stdinOpen = IF enabled THEN @ ELSE FALSE]

\* Process::onStdoutReadyRead / onStderrReadyRead
Process_onReadyRead(s, st) ==
    IF Process_isRunning(s) /\ s.process.open[st]
    THEN [s EXCEPT !.reads = @ \cup {st}]
    ELSE s

\* Process::onFinished
Process_onFinished(s) == [s EXCEPT !.process = NoProcess]

\* ---------------------------------------------------- process actions
ProcOp(name, v, a, c, e) == [op |-> name, v |-> v, a |-> a, c |-> c, e |-> e]

ProcStep(n, label) ==
    /\ proc' = n
    /\ procOp' = label
    /\ UNCHANGED <<ch, chOp, srv, srvOp, env, session, sessionOp, root, rootOp, cfg>>

\* running: true / running: false
ProcSetRunning ==
    \E v \in BOOLEAN, ok \in BOOLEAN :
        ProcStep(Process_setRunning(FreshProc(proc), v, ok),
                 ProcOp("setRunning", v, "", <<>>, EmptyEnv))

ProcSignal ==
    \E sig \in Signals :
        ProcStep(Process_signal(FreshProc(proc), sig),
                 ProcOp("signal", FALSE, sig, <<>>, EmptyEnv))

ProcWrite ==
    ProcStep(Process_write(FreshProc(proc)),
             ProcOp("write", FALSE, "", <<>>, EmptyEnv))

ProcSetCommand ==
    \E c \in Commands, ok \in BOOLEAN :
        ProcStep(Process_setCommand(FreshProc(proc), c, ok),
                 ProcOp("setCommand", FALSE, "", c, EmptyEnv))

ProcSetWorkingDirectory ==
    \E d \in Dirs :
        ProcStep(Process_setWorkingDirectory(FreshProc(proc), d),
                 ProcOp("setWorkingDirectory", FALSE, d, <<>>, EmptyEnv))

ProcSetEnvironment ==
    \E e \in ProcOverlays :
        ProcStep(Process_setEnvironment(FreshProc(proc), e),
                 ProcOp("setEnvironment", FALSE, "", <<>>, e))

ProcSetEnvironmentCleared ==
    \E v \in BOOLEAN :
        ProcStep(Process_setEnvironmentCleared(FreshProc(proc), v),
                 ProcOp("setEnvironmentCleared", v, "", <<>>, EmptyEnv))

ProcSetStdoutParser ==
    \E p \in Parsers :
        ProcStep(Process_setStdoutParser(FreshProc(proc), p),
                 ProcOp("setStdoutParser", FALSE, p, <<>>, EmptyEnv))

ProcSetStderrParser ==
    \E p \in Parsers :
        ProcStep(Process_setStderrParser(FreshProc(proc), p),
                 ProcOp("setStderrParser", FALSE, p, <<>>, EmptyEnv))

\* A parser object is destroyed by its owner.
ProcParserDestroyed ==
    \E st \in Streams :
        /\ proc[ParserField(st)] # "null"
        /\ ProcStep(Process_onParserDestroyed(FreshProc(proc), st),
                    ProcOp("parserDestroyed", FALSE, st, <<>>, EmptyEnv))

ProcSetStdinEnabled ==
    \E v \in BOOLEAN :
        ProcStep(Process_setStdinEnabled(FreshProc(proc), v),
                 ProcOp("setStdinEnabled", v, "", <<>>, EmptyEnv))

\* The child has output ready on one of its streams.
ProcReadyRead ==
    \E st \in Streams :
        /\ Process_isRunning(proc)
        /\ ProcStep(Process_onReadyRead(FreshProc(proc), st),
                    ProcOp("readyRead", FALSE, st, <<>>, EmptyEnv))

\* The child has exited.
ProcFinished ==
    /\ Process_isRunning(proc)
    /\ ProcStep(Process_onFinished(FreshProc(proc)),
                ProcOp("finished", FALSE, "", <<>>, EmptyEnv))

NextProcess ==
    \/ ProcSetRunning
    \/ ProcSignal
    \/ ProcWrite
    \/ ProcSetCommand
    \/ ProcSetWorkingDirectory
    \/ ProcSetEnvironment
    \/ ProcSetEnvironmentCleared
    \/ ProcSetStdoutParser
    \/ ProcSetStderrParser
    \/ ProcParserDestroyed
    \/ ProcSetStdinEnabled
    \/ ProcReadyRead
    \/ ProcFinished

\* ---------------------------------------------------- session lock
\* Serials and sizes the compositor sends in configure events.
Serials == {"n1", "n2"}
Sizes == {"s1", "s2"}
NoSize == "none"

\* Fields of a QSWaylandSessionLock constructed on a lock the manager has
\* just requested: initialized stands for isInitialized() (the wrapper
\* holds the protocol object), managerActive for manager->active == this.
\* requests lists the requests sent on the protocol object, each with the
\* value secure and finished had when it was sent; unlockedEmits counts the
\* unlocked signals.
NewLock ==
    [alive |-> TRUE, initialized |-> TRUE, secure |-> FALSE,
     finished |-> FALSE, managerActive |-> TRUE,
     requests |-> <<>>, unlockedEmits |-> 0]

\* ext_session_lock_v1::destroy / unlock_and_destroy of the generated
\* wrapper: the request is sent and the wrapper forgets the object.
SendRelease(l, req) ==
    [l EXCEPT !.initialized = FALSE,
              !.requests = Append(@, [req |-> req, secure |-> l.secure,
                                      finished |-> l.finished])]

\* QSWaylandSessionLock::unlock without the isInitialized() test.
Mut_unlock_unguarded(l) ==
    [SendRelease(l, IF l.finished THEN "destroy" ELSE "unlock_and_destroy")
        EXCEPT !.secure = FALSE,
               !.managerActive = FALSE,
               !.unlockedEmits = @ + 1]

\* QSWaylandSessionLock::unlock
QSWaylandSessionLock_unlock(l) ==
    IF l.initialized
    THEN [SendRelease(l, IF l.finished THEN "destroy"
                         ELSE "unlock_and_destroy")
             EXCEPT !.secure = FALSE,
                    !.managerActive = FALSE,
                    !.unlockedEmits = @ + 1]
    ELSE l

\* QSWaylandSessionLock::active
QSWaylandSessionLock_active(l) == l.initialized

\* QSWaylandSessionLock::hasCompositorLock
QSWaylandSessionLock_hasCompositorLock(l) == l.secure

\* QSWaylandSessionLock::ext_session_lock_v1_locked; slotUnlocks tells
\* whether a slot of compositorLocked calls unlock().
QSWaylandSessionLock_locked(l, slotUnlocks) ==
    LET l1 == [l EXCEPT !.secure = TRUE]
    IN  IF slotUnlocks THEN QSWaylandSessionLock_unlock(l1) ELSE l1

\* QSWaylandSessionLock::ext_session_lock_v1_finished
QSWaylandSessionLock_finished(l) ==
    QSWaylandSessionLock_unlock([l EXCEPT !.secure = FALSE,
                                          !.finished = TRUE])

\* QSWaylandSessionLock::~QSWaylandSessionLock
QSWaylandSessionLock_destroy(l) ==
    [QSWaylandSessionLock_unlock(l) EXCEPT !.alive = FALSE]

\* Fields of a QSWaylandSessionLockSurface: exists tells whether the object
\* is constructed; initBuf whether the dummy buffer is held; windowSize is
\* the size last given to the window, pendingApply whether
\* applyConfigureWhenPossible is outstanding. requested records that
\* setVisible() was called, initRuns counts the runs of initVisible over
\* the object's life, overAlloc tells that a buffer was allocated while one
\* was held. inits and acked describe the current step: runs of
\* initVisible, and the serials acknowledged.
NewSurface ==
    [exists |-> FALSE, configured |-> FALSE, visible |-> FALSE,
     initBuf |-> FALSE, size |-> NoSize, windowSize |-> NoSize,
     pendingApply |-> FALSE, shown |-> FALSE,
     requested |-> FALSE, initRuns |-> 0, overAlloc |-> FALSE,
     inits |-> 0, acked |-> <<>>]

FreshSurface(s) == [s EXCEPT !.inits = 0, !.acked = <<>>]

\* QSWaylandSessionLockSurface::isExposed
QSWaylandSessionLockSurface_isExposed(s) == s.configured

\* QSWaylandSessionLockSurface::initVisible
QSWaylandSessionLockSurface_initVisible(s) ==
    [s EXCEPT !.visible = TRUE,
              !.overAlloc = @ \/ s.initBuf,
              !.initBuf = TRUE,
              !.shown = TRUE,
              !.initRuns = @ + 1,
              !.inits = @ + 1]

\* QSWaylandSessionLockSurface::handleExpose
QSWaylandSessionLockSurface_handleExpose(s) == [s EXCEPT !.initBuf = FALSE]

\* QSWaylandSessionLockSurface::applyConfigure
QSWaylandSessionLockSurface_applyConfigure(s) ==
    [s EXCEPT !.windowSize = s.size, !.pendingApply = FALSE]

\* QSWaylandSessionLockSurface::setVisible that does not look at visible.
Mut_setVisible_noVisibleTest(s) ==
    LET s1 == IF s.configured
              THEN QSWaylandSessionLockSurface_initVisible(s) ELSE s
    IN  [s1 EXCEPT !.visible = TRUE, !.requested = TRUE]

\* QSWaylandSessionLockSurface::setVisible
QSWaylandSessionLockSurface_setVisible(s) ==
    LET s1 == IF s.configured /\ ~s.visible
              THEN QSWaylandSessionLockSurface_initVisible(s) ELSE s
    IN  [s1 EXCEPT !.visible = TRUE, !.requested = TRUE]

\* QSWaylandSessionLockSurface::ext_session_lock_surface_v1_configure
QSWaylandSessionLockSurface_configure(s, serial, sz) ==
    LET s1 == [s EXCEPT !.acked = Append(@, serial), !.size = sz]
    IN  IF ~s1.configured
        THEN LET s2 == QSWaylandSessionLockSurface_handleExpose(
                           [s1 EXCEPT !.configured = TRUE,
                                      !.windowSize = sz])
             IN  IF s2.visible
                 THEN QSWaylandSessionLockSurface_initVisible(s2) ELSE s2
        ELSE [s1 EXCEPT !.pendingApply = TRUE]

\* QSWaylandSessionLockSurface::QSWaylandSessionLockSurface
QSWaylandSessionLockSurface_create == [NewSurface EXCEPT !.exists = TRUE]

\* QSWaylandSessionLockSurface::~QSWaylandSessionLockSurface
QSWaylandSessionLockSurface_destroy(s) == NewSurface

\* ------------------------------------------------ session lock actions
SessionOp(name, serial, sz, v) ==
    [op |-> name, serial |-> serial, size |-> sz, v |-> v]

SessionStep(l, s, label) ==
    /\ session' = [lock |-> l, surface |-> s]
    /\ sessionOp' = label
    /\ UNCHANGED <<ch, chOp, srv, srvOp, env, proc, procOp, root, rootOp, cfg>>

\* The lock is released by its owner.
LockUnlock ==
    /\ session.lock.alive
    /\ SessionStep(QSWaylandSessionLock_unlock(session.lock),
                   FreshSurface(session.surface),
                   SessionOp("unlock", "", NoSize, FALSE))

\* The compositor confirms the lock.
LockLocked ==
    /\ session.lock.alive /\ session.lock.initialized
    /\ \E slotUnlocks \in BOOLEAN :
        SessionStep(QSWaylandSessionLock_locked(session.lock, slotUnlocks),
                    FreshSurface(session.surface),
                    SessionOp("locked", "", NoSize, slotUnlocks))

\* The compositor denies or ends the lock.
LockFinished ==
    /\ session.lock.alive /\ session.lock.initialized
    /\ SessionStep(QSWaylandSessionLock_finished(session.lock),
                   FreshSurface(session.surface),
                   SessionOp("finished", "", NoSize, FALSE))

LockDestroy ==
    /\ session.lock.alive
    /\ SessionStep(QSWaylandSessionLock_destroy(session.lock),
                   FreshSurface(session.surface),
                   SessionOp("destroyLock", "", NoSize, FALSE))

\* A lock surface is created for a window; the constructor needs the lock
\* (lines 25-28, 40).
SurfaceCreate ==
    /\ ~session.surface.exists
    /\ session.lock.alive /\ session.lock.initialized
    /\ SessionStep(session.lock, QSWaylandSessionLockSurface_create,
                   SessionOp("createSurface", "", NoSize, FALSE))

SurfaceDestroy ==
    /\ session.surface.exists
    /\ SessionStep(session.lock,
                   QSWaylandSessionLockSurface_destroy(session.surface),
                   SessionOp("destroySurface", "", NoSize, FALSE))

SurfaceSetVisible ==
    /\ session.surface.exists
    /\ SessionStep(session.lock,
                   QSWaylandSessionLockSurface_setVisible(
                       FreshSurface(session.surface)),
                   SessionOp("setVisible", "", NoSize, FALSE))

\* The compositor configures the lock surface.
SurfaceConfigure ==
    /\ session.surface.exists
    /\ \E serial \in Serials, sz \in Sizes :
        SessionStep(session.lock,
                    QSWaylandSessionLockSurface_configure(
                        FreshSurface(session.surface), serial, sz),
                    SessionOp("configure", serial, sz, FALSE))

\* Qt delivers an expose event to the window.
SurfaceHandleExpose ==
    /\ session.surface.exists
    /\ SessionStep(session.lock,
                   QSWaylandSessionLockSurface_handleExpose(
                       FreshSurface(session.surface)),
                   SessionOp("handleExpose", "", NoSize, FALSE))

\* Qt applies the pending configure.
SurfaceApplyConfigure ==
    /\ session.surface.exists /\ session.surface.pendingApply
    /\ SessionStep(session.lock,
                   QSWaylandSessionLockSurface_applyConfigure(
                       FreshSurface(session.surface)),
                   SessionOp("applyConfigure", "", NoSize, FALSE))

NextSessionLock ==
    \/ LockUnlock
    \/ LockLocked
    \/ LockFinished
    \/ LockDestroy
    \/ SurfaceCreate
    \/ SurfaceDestroy
    \/ SurfaceSetVisible
    \/ SurfaceConfigure
    \/ SurfaceHandleExpose
    \/ SurfaceApplyConfigure

\* ------------------------------------------------------------ RootWrapper
\* What QQmlComponent::beginCreate hands back for the root file: nothing,
\* an object that is not a ShellRoot, or a ShellRoot.
CreateOutcomes == {"null", "notShellRoot", "shellRoot"}

\* EngineGeneration objects are numbered in allocation order; NoGeneration
\* is nullptr.
NoGeneration == 0
Generations == 1..MaxGen

\* Fate of an EngineGeneration: not allocated yet, alive, deleted by the
\* wrapper, or alive and handed to its successor's onReload.
GenStates == {"none", "live", "deleted", "passed"}

\* The value of an observation that the step did not make.
NotCalled == -1

\* A RootWrapper whose constructor has not run yet.  `created`, `discarded`,
\* `onReloadArg` and `settingsReset` record what the last entry point did.
NewRootWrapper ==
    [constructed |-> FALSE, exited |-> FALSE, generation |-> NoGeneration,
     gens |-> [g \in Generations |-> "none"], allocated |-> 0,
     watching |-> FALSE,
     created |-> NoGeneration, discarded |-> NoGeneration,
     onReloadArg |-> NotCalled, settingsReset |-> FALSE]

FreshRoot(r) ==
    [r EXCEPT !.created = NoGeneration, !.discarded = NoGeneration,
              !.onReloadArg = NotCalled, !.settingsReset = FALSE]

\* onWatchFilesChanged: the current generation, if any, takes the setting.
RootWrapper_onWatchFilesChanged(r, watchFiles) ==
    IF r.generation # NoGeneration THEN [r EXCEPT !.watching = watchFiles]
    ELSE r

Mut_reloadGraph_dropsCurrent(r, hard, outcome, watchFiles) ==
    LET g == r.allocated + 1
        old == r.generation
        r1 == [r EXCEPT !.allocated = g, !.created = g,
                        !.gens[g] = "live",
                        !.settingsReset = (old # NoGeneration)]
    IN  IF outcome # "shellRoot"
        THEN [r1 EXCEPT !.gens[g] = "deleted", !.discarded = g,
                        !.generation = NoGeneration]
        ELSE LET r2 == [r1 EXCEPT !.onReloadArg =
                                      IF hard THEN NoGeneration ELSE old]
                 r3 == IF old = NoGeneration THEN r2
                       ELSE IF hard THEN [r2 EXCEPT !.gens[old] = "deleted"]
                       ELSE [r2 EXCEPT !.gens[old] = "passed"]
                 r4 == [r3 EXCEPT !.generation = g]
             IN  RootWrapper_onWatchFilesChanged(r4, watchFiles)

\* reloadGraph: a new generation is allocated and the settings are reset if
\* there is a current generation; a root that is null or not a ShellRoot
\* deletes the new generation and returns; otherwise the new generation's
\* onReload receives the old one (soft) or nullptr (hard), a hard reload
\* deletes the old one, the new one becomes current and takes the
\* watchFiles setting.
RootWrapper_reloadGraph(r, hard, outcome, watchFiles) ==
    LET g == r.allocated + 1
        old == r.generation
        r1 == [r EXCEPT !.allocated = g, !.created = g,
                        !.gens[g] = "live",
                        !.settingsReset = (old # NoGeneration)]
    IN  IF outcome # "shellRoot"
        THEN [r1 EXCEPT !.gens[g] = "deleted", !.discarded = g]
        ELSE LET r2 == [r1 EXCEPT !.onReloadArg =
                                      IF hard THEN NoGeneration ELSE old]
                 r3 == IF old = NoGeneration THEN r2
                       ELSE IF hard THEN [r2 EXCEPT !.gens[old] = "deleted"]
                       ELSE [r2 EXCEPT !.gens[old] = "passed"]
                 r4 == [r3 EXCEPT !.generation = g]
             IN  RootWrapper_onWatchFilesChanged(r4, watchFiles)

\* The constructor: a hard reload, then exit(-1) if there is no generation.
RootWrapper_RootWrapper(r, outcome, watchFiles) ==
    LET r1 == RootWrapper_reloadGraph(r, TRUE, outcome, watchFiles)
    IN  IF r1.generation = NoGeneration THEN [r1 EXCEPT !.exited = TRUE]
        ELSE [r1 EXCEPT !.constructed = TRUE]

\* onWatchedFilesChanged: a soft reload.
RootWrapper_onWatchedFilesChanged(r, outcome, watchFiles) ==
    RootWrapper_reloadGraph(r, FALSE, outcome, watchFiles)

\* ---------------------------------------------------- RootWrapper actions
RootOp(name, hard, outcome) ==
    [op |-> name, hard |-> hard, outcome |-> outcome]

RootStep(r, label) ==
    /\ root' = r
    /\ rootOp' = label
    /\ UNCHANGED <<ch, chOp, srv, srvOp, env, proc, procOp, session, sessionOp, cfg>>

\* main constructs the wrapper.
RootConstruct ==
    /\ ~root.constructed
    /\ ~root.exited
    /\ \E outcome \in CreateOutcomes, w \in BOOLEAN :
           RootStep(RootWrapper_RootWrapper(FreshRoot(root), outcome, w),
                    RootOp("construct", TRUE, outcome))

\* A watched file changed: the current generation, which is watching,
\* emits filesChanged.
RootWatchedFilesChanged ==
    /\ root.constructed
    /\ root.watching
    /\ root.allocated < MaxGen
    /\ \E outcome \in CreateOutcomes, w \in BOOLEAN :
           RootStep(RootWrapper_onWatchedFilesChanged(FreshRoot(root),
                                                      outcome, w),
                    RootOp("reloadGraph", FALSE, outcome))

\* reloadGraph called directly, hard or soft.
RootReload ==
    /\ root.constructed
    /\ root.allocated < MaxGen
    /\ \E hard \in BOOLEAN, outcome \in CreateOutcomes, w \in BOOLEAN :
           RootStep(RootWrapper_reloadGraph(FreshRoot(root), hard, outcome, w),
                    RootOp("reloadGraph", hard, outcome))

\* QuickshellSettings emits watchFilesChanged.
RootWatchFilesChanged ==
    /\ root.constructed
    /\ \E w \in BOOLEAN :
           RootStep(RootWrapper_onWatchFilesChanged(FreshRoot(root), w),
                    RootOp("onWatchFilesChanged", FALSE, "null"))

NextRoot ==
    \/ RootConstruct
    \/ RootWatchedFilesChanged
    \/ RootReload
    \/ RootWatchFilesChanged

\* ---------------------------------------------------------------- qs_main
\* The level a CHECK chain starts from: no source has supplied a value.
UnsetLevel == 10

\* Configuration names; the option can name "n1", the variable "n2".
ConfigNames == {"n1", "n2"}

\* The lines of a manifest: a comment, a blank line, a line that does not
\* split into two parts at '=', and an entry `key = target`.
ManifestLines ==
    {[kind |-> "comment", key |-> "", target |-> ""],
     [kind |-> "blank", key |-> "", target |-> ""],
     [kind |-> "malformed", key |-> "", target |-> ""],
     [kind |-> "entry", key |-> "n1", target |-> "d1"],
     [kind |-> "entry", key |-> "n2", target |-> "d2"]}

RECURSIVE SeqsUpTo(_, _)
SeqsUpTo(S, n) ==
    IF n = 0 THEN {<<>>}
    ELSE LET shorter == SeqsUpTo(S, n - 1)
         IN  shorter \cup {Append(q, x) : q \in {p \in shorter : Len(p) = n - 1},
                                          x \in S}

\* The manifest file at the chosen manifest path: one that cannot be opened,
\* or its lines.
Unreadable == [readable |-> FALSE, lines |-> <<>>]
ManifestFiles ==
    {Unreadable}
    \cup {[readable |-> TRUE, lines |-> l] : l \in SeqsUpTo(ManifestLines, MaxLines)}

\* The base path on disk: absent, something that is not a directory, or a
\* directory with these sub-directories.
BaseDirs == {[kind |-> "missing", entries |-> {}],
             [kind |-> "notDir", entries |-> {}]}
            \cup {[kind |-> "dir", entries |-> e] : e \in SUBSET ConfigNames}

\* The base path itself: QS_BASE_PATH or the default, never empty.
BasePath == "base"

\* Everything qs_main reads while it selects the configuration.
MainInputs ==
    [printCurrent : BOOLEAN,
     optionConfigPath : {"", "optPath"},
     envConfigPath : {"", "envPath"},
     optionConfigName : {"", "n1"},
     envConfigName : {"", "n2"},
     optionManifestPath : {"", "optManifest"},
     envManifestPath : {"", "envManifest"},
     manifest : ManifestFiles,
     base : BaseDirs]

\* One CHECK: the value is taken, with its level, if nothing was taken yet
\* and the value is not empty; `found` tells whether it was taken.
CHECK(r, name, level) ==
    IF r.value = "" /\ name # ""
    THEN [value |-> name, level |-> level, found |-> TRUE]
    ELSE [r EXCEPT !.found = FALSE]

\* A declared, still unset, result of a chain of CHECKs.
Unset == [value |-> "", level |-> UnsetLevel, found |-> FALSE]

\* Two CHECKs in a row; a value that is found jumps over the rest unless
\* --current is given.
CheckTwo(printCurrent, first, second) ==
    LET r1 == CHECK(Unset, first, 0)
    IN  IF r1.found /\ ~printCurrent THEN r1 ELSE CHECK(r1, second, 1)

configPath(in) == CheckTwo(in.printCurrent, in.optionConfigPath, in.envConfigPath)

configName(in) == CheckTwo(in.printCurrent, in.optionConfigName, in.envConfigName)

\* Option, environment, then <base path>/manifest.conf.
manifestPath(in) ==
    LET r2 == CheckTwo(in.printCurrent, in.optionManifestPath,
                       in.envManifestPath)
    IN  IF r2.found /\ ~in.printCurrent THEN r2
        ELSE CHECK(r2, "defaultManifest", 2)

Failure(why) == [status |-> "error", source |-> why, path |-> ""]

Selected(source, path) == [status |-> "ok", source |-> source, path |-> path]

\* The manifest's lines in order: comments and blank lines are skipped, a
\* malformed line ends the program, the first entry whose key is the
\* configuration name gives the path; reaching the end is an error.
RECURSIVE ScanManifest(_, _)
ScanManifest(lines, name) ==
    IF lines = <<>> THEN Failure("notInManifest")
    ELSE LET line == Head(lines)
         IN  IF line.kind \in {"comment", "blank"}
             THEN ScanManifest(Tail(lines), name)
             ELSE IF line.kind = "malformed" THEN Failure("malformedManifest")
             ELSE IF line.key = name THEN Selected("manifest", line.target)
             ELSE ScanManifest(Tail(lines), name)

\* The sub-directory of the base path named like the configuration.
LookupDirectory(base, name) ==
    IF base.kind = "missing" THEN Failure("noBasePath")
    ELSE IF base.kind = "notDir" THEN Failure("basePathNotDir")
    ELSE IF name \in base.entries THEN Selected("directory", name)
    ELSE Failure("noSuchDirectory")

\* A configuration name: the manifest decides if it can be opened; one that
\* cannot be opened is an error unless it is the default manifest, and then
\* the base path's directories are searched.
ResolveName(in, name) ==
    LET mf == manifestPath(in)
    IN  IF mf.value # "" /\ in.manifest.readable
        THEN ScanManifest(in.manifest.lines, name)
        ELSE IF mf.value # "" /\ mf.level < 2 THEN Failure("cannotOpenManifest")
        ELSE LookupDirectory(in.base, name)

Mut_SelectSource_strictLevel(p, n) ==
    IF p.level = 0 /\ n.level = 0 THEN "reject"
    ELSE IF p.value # "" /\ p.level < n.level THEN "path"
    ELSE IF n.value # "" THEN "name"
    ELSE "base"

\* Which source gives the configuration: both options are rejected, the
\* path wins if it is set at a level not above the name's, then the name,
\* then the base path.
SelectSource(p, n) ==
    IF p.level = 0 /\ n.level = 0 THEN "reject"
    ELSE IF p.value # "" /\ p.level <= n.level THEN "path"
    ELSE IF n.value # "" THEN "name"
    ELSE "base"

\* qs_main up to the point where configFilePath has been chosen.
qs_main(in) ==
    LET p == configPath(in)
        n == configName(in)
        source == SelectSource(p, n)
    IN  IF source = "reject" THEN Failure("bothOptions")
        ELSE IF source = "path" THEN Selected("path", p.value)
        ELSE IF source = "name" THEN ResolveName(in, n.value)
        ELSE Selected("base", BasePath)

\* qs_main has not run yet.
NoResult == [status |-> "pending", source |-> "", path |-> ""]

\* An invocation without options, variables, manifest or base directory.
BareInvocation ==
    [printCurrent |-> FALSE, optionConfigPath |-> "", envConfigPath |-> "",
     optionConfigName |-> "", envConfigName |-> "",
     optionManifestPath |-> "", envManifestPath |-> "",
     manifest |-> Unreadable, base |-> [kind |-> "missing", entries |-> {}]]

\* qs_main selects the configuration.
SelectConfiguration ==
    /\ cfg.out = NoResult
    /\ cfg' = [cfg EXCEPT !.out = qs_main(cfg.in)]
    /\ UNCHANGED <<ch, chOp, srv, srvOp, env, proc, procOp, session, sessionOp, root, rootOp>>

\* One Socket, one SocketServer, one Process and one session lock, all as
\* constructed, and a RootWrapper about to be constructed.
Init ==
    /\ ch = NewSocket
    /\ chOp = ChOp("new", "", FALSE, QuietEnv)
    /\ srv = NewServer
    /\ srvOp = SrvOp("new", "", FALSE)
    /\ env = NoResolution
    /\ proc = NewProcess
    /\ procOp = ProcOp("new", FALSE, "", <<>>, EmptyEnv)
    /\ session = [lock |-> NewLock, surface |-> NewSurface]
    /\ sessionOp = SessionOp("new", "", NoSize, FALSE)
    /\ root = NewRootWrapper
    /\ rootOp = RootOp("new", FALSE, "null")
    /\ cfg = [in |-> BareInvocation, out |-> NoResult]

\* Every system environment, environment property and clearEnvironment
\* value over the model's keys and values.
InitEnv ==
    /\ ch = NewSocket
    /\ chOp = ChOp("new", "", FALSE, QuietEnv)
    /\ srv = NewServer
    /\ srvOp = SrvOp("new", "", FALSE)
    /\ env \in EnvInputs
    /\ proc = NewProcess
    /\ procOp = ProcOp("new", FALSE, "", <<>>, EmptyEnv)
    /\ session = [lock |-> NewLock, surface |-> NewSurface]
    /\ sessionOp = SessionOp("new", "", NoSize, FALSE)
    /\ root = NewRootWrapper
    /\ rootOp = RootOp("new", FALSE, "null")
    /\ cfg = [in |-> BareInvocation, out |-> NoResult]

NextEnv == ResolveEnvironment

SpecEnv == InitEnv /\ [][NextEnv]_vars

SpecProcess == Init /\ [][NextProcess]_vars

SpecSessionLock == Init /\ [][NextSessionLock]_vars

SpecRoot == Init /\ [][NextRoot]_vars

\* Every invocation of qs_main over the model's options, variables, manifest
\* files and base directories.
InitMain ==
    /\ ch = NewSocket
    /\ chOp = ChOp("new", "", FALSE, QuietEnv)
    /\ srv = NewServer
    /\ srvOp = SrvOp("new", "", FALSE)
    /\ env = NoResolution
    /\ proc = NewProcess
    /\ procOp = ProcOp("new", FALSE, "", <<>>, EmptyEnv)
    /\ session = [lock |-> NewLock, surface |-> NewSurface]
    /\ sessionOp = SessionOp("new", "", NoSize, FALSE)
    /\ root = NewRootWrapper
    /\ rootOp = RootOp("new", FALSE, "null")
    /\ cfg \in [in : MainInputs, out : {NoResult}]

NextMain == SelectConfiguration

SpecMain == InitMain /\ [][NextMain]_vars

NextServer ==
    \/ OnPostReload
    \/ SetActive
    \/ SrvSetPath
    \/ SetHandler
    \/ NewConnection
    \/ Destroy
    \/ SrvDeferredDelete
    \/ ForeignFile

SpecServer == Init /\ [][NextServer]_vars

SpecChannel == Init /\ [][NextChannel]_vars

\* ================================================================ claims
\* ---- SocketServer

Gated(g) ==
    /\ g.called /\ g.noListener /\ g.postReload /\ g.activeTarget
    /\ g.pathSet /\ g.handlerSet

\* C1: a listener is created, and enableServer is entered, only by a step in
\* which all five conditions held when enableServer was entered: no
\* listener, postReload, activeTarget, path non-empty, handler set. A step
\* in which one of them is unmet leaves the server without listener.
C1_EnableOnlyWhenActivatable ==
    [][(srv'.gate.called \/ (~srv.server /\ srv'.server))
           => Gated(srv'.gate)]_vars

\* C1 witness: setPath supplied the last condition and a listener was made.
C1_Witness ==
    /\ srvOp.op = "setPath" /\ srv.gate.called /\ srv.server
    /\ srv.bound = srv.mPath

\* C2 (as claimed): once onPostReload, setPath or setHandler has returned
\* with activation requested and post-startup, path and handler all
\* supplied, the server is listening (unless that step's listen failed).
C2_ReevaluatedAfterEveryChange ==
    (/\ srvOp.op \in {"onPostReload", "setPath", "setHandler"}
     /\ srv.postReload /\ srv.activeTarget /\ srv.mPath # ""
     /\ srv.mHandler # "null" /\ ~srv.listenFailed)
        => srv.server

\* C3: disabling a listening server (setActive(false) or destruction)
\* schedules every accepted handler for deletion, empties the accepted set,
\* drops the listener, and leaves no file at the server's path unless the
\* removal of that file failed.
C3_DisableTearsDown ==
    [][(/\ srv.server
        /\ \/ srvOp'.op = "setActive" /\ ~srvOp'.v
           \/ srvOp'.op = "destroy")
           => /\ srv'.torn = Len(srv.mSockets)
              /\ srv'.mSockets = <<>>
              /\ ~SocketServer_isActive(srv')
              /\ \/ srv'.mPath = ""
                 \/ srv'.files[srv'.mPath] = "none"
                 \/ srv'.rmFailed]_vars

\* C3 witness: a server with two accepted handlers was disabled and its
\* socket file removed.
C3_Witness ==
    /\ srvOp.op = "setActive" /\ ~srvOp.v
    /\ srv.torn = 2 /\ srv.removed = {"own"} /\ ~srv.server
    /\ srv.files[srv.mPath] = "none"

\* C4: a step whose listen() failed ends dormant: no listener object, not
\* active, nothing bound, no accepted handler.
C4_ListenFailureRollsBack ==
    srv.listenFailed
        => /\ ~srv.server
           /\ ~SocketServer_isActive(srv)
           /\ srv.bound = ""
           /\ srv.mSockets = <<>>

\* C4 witness: enableServer ran and its listen() failed on a file in the way.
C4_Witness ==
    /\ srv.listenFailed /\ srv.gate.called
    /\ srv.files[srv.mPath] = "foreign"

\* ---- Socket

\* C5 (as claimed): every live QLocalSocket of the channel is the one it
\* holds (a replaced one is scheduled for deletion), and no connect attempt
\* is started while a socket is held.
C5_SingleLiveSocket ==
    ch.orphans = 0 /\ ch.heldAttempts = 0

\* C6 (as claimed): one disconnect-completion event starts at most one
\* connect attempt, whatever a connectionStateChanged handler calls.
C6_OneAttemptPerDisconnect ==
    chOp.op = "disconnected" => ch.attempts <= 1

\* C7 (as claimed): while the caller's latest request is connected = true,
\* an established connection leaves target-connected true, and its
\* disconnect completion makes a reconnect attempt.
C7_IntentSurvivesConnect ==
    /\ (ch.requested /\ ch.connected) => ch.targetConnected
    /\ (chOp.op = "disconnected" /\ ch.requested /\ ch.mPath # "")
           => ch.attempts >= 1

\* C8 (as claimed): setConnected(false) requests a close exactly when the
\* channel is connected and not disconnecting.
C8_CloseOnlyWhenConnected ==
    [][(chOp'.op = "setConnected" /\ ~chOp'.v)
           => (ch'.closeReqs = 1 <=> (ch.connected /\ ~ch.disconnecting))]_vars

\* C8 (amended): setConnected(false) requests a close, once, exactly when a
\* socket is held (connected or not) and the channel is not disconnecting;
\* a request whose disconnect has not completed inside the call has marked
\* the channel disconnecting, and a call made while the flag is set requests
\* nothing.
C8_CloseIffSocketHeld ==
    [][(chOp'.op = "setConnected" /\ ~chOp'.v)
           => /\ ch'.closeReqs = 1 <=> (ch.socket # "null" /\ ~ch.disconnecting)
              /\ ch'.closeReqs \in {0, 1}
              /\ (ch'.closeReqs = 1 /\ ch'.stateEvents = 0)
                     => ch'.disconnecting
              /\ ch.disconnecting => ch'.closeReqs = 0]_vars

\* C8 witness: a close was requested of a socket that never connected.
C8_Witness ==
    /\ chOp.op = "setConnected" /\ ~chOp.v
    /\ ch.closeReqs = 1 /\ ch.socket = "failed" /\ ~ch.connected
    /\ ch.disconnecting

\* C9: a rejected setPath(p) (connected and not disconnecting, or p is the
\* current path) changes no field, starts no connect attempt and emits
\* neither pathChanged nor connectionStateChanged.
C9_RejectedSetPathIsNoOp ==
    [][(/\ chOp'.op = "setPath"
        /\ \/ ch.connected /\ ~ch.disconnecting
           \/ chOp'.p = ch.mPath)
           => ch' = Fresh(ch)]_vars

\* C9 witness: a different path was rejected while connected.
C9_Witness ==
    /\ chOp.op = "setPath" /\ chOp.p # ch.mPath
    /\ ch.connected /\ ~ch.disconnecting /\ ch.socket = "open"

C11_ConnectSuccessConsistent ==
    /\ \A i \in DOMAIN ch.seen :
           ch.seen[i].ev = "connected"
               => /\ ch.seen[i].connected /\ ~ch.seen[i].disconnecting
                  /\ ch.seen[i].buffer = 0 /\ ch.seen[i].held
    /\ ((chOp.op = "connectDone" /\ chOp.v) \/ chOp.op = "setSocket")
           => /\ Cardinality({i \in DOMAIN ch.seen :
                                  ch.seen[i].ev = "connected"}) = 1
              /\ chOp.hk.sig = "none"
                     => /\ ch.stateEvents = 1
                        /\ ch.connected /\ ~ch.disconnecting
                        /\ ch.buffer = 0 /\ ch.socket = "open"

\* C11 witness: a connect completed after setConnected(false) had marked
\* the channel disconnecting, and the one event was delivered.
C11_Witness ==
    /\ chOp.op = "connectDone" /\ chOp.v /\ chOp.hk.sig = "none"
    /\ ~ch.requested /\ ch.mPath # ""
    /\ Len(ch.seen) = 1 /\ ch.connected /\ ~ch.disconnecting

\* The Disconnected state of the channel: no socket, neither flag set.
IsDormant(s) == s.socket = "null" /\ ~s.connected /\ ~s.disconnecting

\* C12: once setConnected(false) has marked the channel disconnecting (a
\* socket was held, connecting or connected) and the caller has not asked to
\* connect again, the next readiness event of the socket (its connect
\* completing or failing, or its disconnected() signal) brings the channel to
\* Disconnected: it does not stay disconnecting and does not become
\* connected.
C12_NextReadinessCompletesCancel ==
    [][(/\ ch.disconnecting /\ ~ch.requested
        /\ chOp'.op \in {"connectDone", "disconnected"}
        /\ chOp'.hk.sig = "none")
           => IsDormant(ch')]_vars

\* C13: when a connect attempt that the caller still wants fails, the
\* channel is left dormant (no socket held, connected and disconnecting
\* false); and whenever no connection is established or in progress, a
\* setConnected(true) on a channel with a path starts a fresh attempt.
C13_FailedConnectLeavesDormant ==
    [][/\ (chOp'.op = "connectDone" /\ ~chOp'.v /\ ch.requested)
              => IsDormant(ch')
       /\ (/\ ~ch.connected /\ ~ch.disconnecting /\ ch.socket # "connecting"
           /\ ch.mPath # ""
           /\ chOp'.op = "setConnected" /\ chOp'.v /\ chOp'.hk.sig = "none")
              => ch'.attempts = 1]_vars

\* C14: when the handler component creates nothing, or an object that is no
\* Socket, for an inbound connection, the connection is dropped, the created
\* object (if any) is discarded, and nothing else about the server changes:
\* the accepted set is the same and the listener keeps listening on the
\* same path.
C14_InvalidFactoryOutputDropped ==
    [][(/\ srvOp'.op = "newConnection"
        /\ srvOp'.p \in {"nothing", "object"}
        /\ srv.mHandler # "null")
           => /\ srv'.dropped = 1
              /\ srv'.discarded = (IF srvOp'.p = "object" THEN 1 ELSE 0)
              /\ srv' = [FreshSrv(srv) EXCEPT !.dropped = srv'.dropped,
                                              !.discarded = srv'.discarded]
              /\ srv'.mSockets = srv.mSockets
              /\ srv'.server /\ srv'.bound = srv.bound /\ srv'.bound # ""]_vars

\* C14 witness: a server with an accepted handler has just dropped a
\* connection for which a non-Socket object was created.
C14_Witness ==
    /\ srvOp.op = "newConnection" /\ srvOp.p = "object"
    /\ srv.mHandler # "null" /\ srv.server
    /\ Len(srv.mSockets) >= 1
    /\ srv.dropped = 1 /\ srv.discarded = 1

\* C15: the created Socket is appended to the accepted set; if it is already
\* connected the inbound connection is dropped and the Socket is left exactly
\* as created (its own socket is not replaced or scheduled for deletion);
\* otherwise the inbound connection is installed and the Socket is connected
\* on it.
C15_DefensiveDrop ==
    [][(/\ srvOp'.op = "newConnection"
        /\ srvOp'.p \in {"socket", "connectingSocket", "connectedSocket"}
        /\ srv.mHandler # "null")
           => LET n == Len(srv'.mSockets)
                  created == CreatedSocket(srvOp'.p)
              IN  /\ n = Len(srv.mSockets) + 1
                  /\ SubSeq(srv'.mSockets, 1, n - 1) = srv.mSockets
                  /\ srv'.discarded = 0
                  /\ srv'.mSockets[n].connected
                  /\ srv'.mSockets[n].socket = "open"
                  /\ IF srvOp'.p = "connectedSocket"
                     THEN /\ srv'.dropped = 1
                          /\ srv'.mSockets[n] = created
                          /\ srv'.mSockets[n].doomed = 0
                     ELSE /\ srv'.dropped = 0
                          /\ srv'.mSockets[n].doomed =
                                 (IF created.socket = "null" THEN 0 ELSE 1)]_vars

\* C15 witness: the accepted set holds a handler that kept its own
\* connection (the inbound one was dropped) next to one that was given an
\* inbound connection.
C15_Witness ==
    /\ srvOp.op = "newConnection" /\ srvOp.p = "connectedSocket"
    /\ srv.dropped = 1 /\ Len(srv.mSockets) = 2
    /\ srv.mSockets[1].connected /\ srv.mSockets[1].mPath = ""
    /\ srv.mSockets[2].connected /\ srv.mSockets[2].mPath = "b"
    /\ srv.mSockets[2].doomed = 0

\* ---- Process
\* C16: for every system environment, environment property and
\* clearEnvironment value, the resolved environment is, key by key: with
\* clearEnvironment false, the property's string if it maps the key to a
\* string, absent if it maps the key to null, and the system value (or
\* absence) otherwise; with clearEnvironment true, the property's string if
\* it maps the key to a string, the system value (or absence) if it maps
\* the key to null, and absent otherwise.
C16_EnvironmentResolution ==
    env.resolved =>
        \A k \in Keys :
            LET listed == k \in DOMAIN env.overlay
                isNull == listed /\ env.overlay[k] = Null
                isStr == listed /\ env.overlay[k] # Null
                Same(m) == IF k \in DOMAIN m
                           THEN k \in DOMAIN env.merged
                                /\ env.merged[k] = m[k]
                           ELSE k \notin DOMAIN env.merged
            IN  /\ isStr => Same(env.overlay)
                /\ (isNull /\ ~env.clear) => k \notin DOMAIN env.merged
                /\ (isNull /\ env.clear) => Same(env.ambient)
                /\ (~listed /\ ~env.clear) => Same(env.ambient)
                /\ (~listed /\ env.clear) => k \notin DOMAIN env.merged

\* C16 witness: with clearEnvironment set, a key mapped to null has
\* recovered its system value while another system variable did not
\* survive.
C16_Witness ==
    /\ env.resolved /\ env.clear
    /\ "K1" \in DOMAIN env.overlay /\ env.overlay["K1"] = Null
    /\ "K1" \in DOMAIN env.ambient /\ "K1" \in DOMAIN env.merged
    /\ env.merged["K1"] = env.ambient["K1"]
    /\ "K2" \in DOMAIN env.ambient /\ "K2" \notin DOMAIN env.overlay
    /\ "K2" \notin DOMAIN env.merged

C18_SpecMutationAffectsNextStart ==
    [][/\ procOp'.op = "setCommand" => proc'.mCommand = procOp'.c
       /\ procOp'.op = "setWorkingDirectory"
              => proc'.mWorkingDirectory = procOp'.a
       /\ procOp'.op = "setEnvironment" => proc'.mEnvironment = procOp'.e
       /\ procOp'.op = "setEnvironmentCleared"
              => proc'.mClearEnvironment = procOp'.v
       /\ (/\ Process_isRunning(proc)
           /\ procOp'.op \in {"setCommand", "setWorkingDirectory",
                              "setEnvironment", "setEnvironmentCleared"})
              => /\ proc'.process = proc.process
                 /\ proc'.spawns = 0 /\ proc'.signals = <<>>
       /\ proc'.spawns = 1
              => /\ proc'.process.command = proc'.mCommand
                 /\ proc'.process.dir =
                        (IF proc'.mWorkingDirectory = "" THEN GlobalDir
                         ELSE proc'.mWorkingDirectory)
                 /\ proc'.process.environment =
                        MergeEnv(SystemEnv, proc'.mEnvironment,
                                 proc'.mClearEnvironment)]_vars

\* C18 witness: the command was changed while a process started from
\* another command is running.
C18_Witness ==
    /\ procOp.op = "setCommand" /\ Process_isRunning(proc)
    /\ proc.mCommand = <<"c2">> /\ proc.process.command = <<"c1">>
    /\ proc.mWorkingDirectory = "d" /\ proc.process.dir = GlobalDir

\* C19: a stream of a running process that is closed stays closed for the
\* rest of that process's life and nothing is read from it, whatever is
\* done, attaching a parser included; a stream whose parser is absent is
\* closed; and only open streams are read.
C19_DetachedStreamStaysClosed ==
    [][\A st \in Streams :
        /\ (/\ Process_isRunning(proc) /\ ~proc.process.open[st]
            /\ Process_isRunning(proc')
            /\ proc'.process.pid = proc.process.pid)
               => ~proc'.process.open[st] /\ st \notin proc'.reads
        /\ (Process_isRunning(proc') /\ proc'[ParserField(st)] = "null")
               => ~proc'.process.open[st]
        /\ st \in proc'.reads => proc'.process.open[st]]_vars

\* C19 witness: stdout of the running process is closed although a parser
\* is attached again, and its readiness was just answered by reading
\* nothing.
C19_Witness ==
    /\ procOp.op = "readyRead" /\ procOp.a = "stdout"
    /\ Process_isRunning(proc)
    /\ proc.mStdoutParser # "null" /\ ~proc.process.open["stdout"]
    /\ proc.process.open["stderr"]
    /\ proc.reads = {}

\* C20: a Process on which no entry point has run yet (newly constructed)
\* has stdinEnabled = true.
C20_StdinEnabledByDefault == procOp.op = "new" => proc.mStdinEnabled

\* ---- SocketServer, continued
\* C21: whenever the server goes from listening to dormant and no file
\* removal failed, no file is left at the path its listener was bound to.
C21_NoOrphanedSocketFile ==
    [][(srv.server /\ ~srv'.server /\ ~srv'.rmFailed)
           => srv'.files[srv.bound] = "none"]_vars

\* C22: a handler whose inbound connection was dropped is not added to the
\* accepted set.
C22_AcceptedSetHoldsBoundHandlers ==
    [][(srvOp'.op = "newConnection" /\ srv'.dropped = 1)
           => srv'.mSockets = srv.mSockets]_vars

\* C23: whenever a listener exists a handler component is set.
C23_ListenerImpliesHandler == srv.server => srv.mHandler # "null"

\* C24: the server never removes a file it did not create as the socket
\* file of one of its listeners.
C24_RemovesOnlyOwnFiles == "foreign" \notin srv.removed

\* C25: an entry point emits activeStatusChanged once if it changed
\* isActive() and not at all if isActive() is what it was.
C25_ActiveStatusEventsAccurate ==
    [][srv'.activeEvents = (IF srv'.server # srv.server THEN 1 ELSE 0)]_vars

\* ---- Socket, continued
\* C26: connected implies a live socket (connecting or connected) is held,
\* disconnecting implies the same, and with no socket held both flags are
\* false and the buffer is empty.
C26_FlagsImplyLiveSocket ==
    LET live == ch.socket \in {"connecting", "open", "closing"}
    IN  /\ ch.connected => live
        /\ ch.disconnecting => live
        /\ ch.socket = "null"
               => ~ch.connected /\ ~ch.disconnecting /\ ch.buffer = 0

\* ---- session lock
\* C27: over the life of one QSWaylandSessionLock the unlocked signal is
\* emitted at most once and at most one release request destroys the
\* protocol object; once it is released active() and hasCompositorLock()
\* are false and the manager's active reference is cleared; and
\* hasCompositorLock() implies active() in every state.
C27_UnlocksOnce ==
    LET l == session.lock
    IN  /\ l.unlockedEmits <= 1
        /\ Len(l.requests) <= 1
        /\ l.unlockedEmits = Len(l.requests)
        /\ l.unlockedEmits = 1
               => /\ ~QSWaylandSessionLock_active(l)
                  /\ ~QSWaylandSessionLock_hasCompositorLock(l)
                  /\ ~l.managerActive
        /\ QSWaylandSessionLock_hasCompositorLock(l)
               => QSWaylandSessionLock_active(l)

\* C27 witness: the compositor confirmed and later finished the lock, and
\* the lock object was destroyed afterwards, with one unlocked signal.
C27_Witness ==
    /\ sessionOp.op = "destroyLock"
    /\ session.lock.finished /\ ~session.lock.alive
    /\ session.lock.unlockedEmits = 1
    /\ Len(session.lock.requests) = 1
    /\ session.lock.requests[1].req = "destroy"

\* C28: unlock_and_destroy is sent exactly when, at the release, the
\* compositor had confirmed the lock and not finished it; otherwise destroy
\* is sent.
C28_ReleaseMatchesProtocolState ==
    \A i \in DOMAIN session.lock.requests :
        LET r == session.lock.requests[i]
        IN  r.req = (IF r.secure /\ ~r.finished THEN "unlock_and_destroy"
                     ELSE "destroy")

\* C29: on one lock surface initVisible runs in exactly the steps in which
\* "first configure received and setVisible called" becomes true, hence
\* once and never before the first configure; every configure acknowledges
\* its serial; isExposed() is false until the first configure and true ever
\* after; and no dummy buffer is allocated while one is held.
C29_VisibleOnce ==
    [][LET s == session.surface
           t == session'.surface
           Both(x) == x.configured /\ x.requested
       IN  t.exists =>
             /\ t.inits = (IF Both(t) /\ ~Both(s) THEN 1 ELSE 0)
             /\ t.initRuns <= 1
             /\ t.initRuns = 1 <=> Both(t)
             /\ sessionOp'.op = "configure"
                    => t.acked = <<sessionOp'.serial>>
             /\ QSWaylandSessionLockSurface_isExposed(t)
                    <=> (sessionOp'.op = "configure"
                         \/ (s.exists
                             /\ QSWaylandSessionLockSurface_isExposed(s)))
             /\ ~t.overAlloc]_vars

\* C29 witness: setVisible() came before the first configure, which then
\* ran initVisible; a later configure and setVisible() ran it no more.
C29_Witness ==
    /\ sessionOp.op = "setVisible"
    /\ session.surface.configured /\ session.surface.pendingApply
    /\ session.surface.initRuns = 1 /\ session.surface.inits = 0
    /\ session.surface.initBuf

\* ---- RootWrapper
\* C30: once the RootWrapper constructor has returned, the current
\* generation is never null, whatever reloads follow.  A reload whose root
\* component is not created, or is not a ShellRoot, leaves the previous
\* generation current and untouched and deletes the generation it had
\* allocated.  A successful reload makes the newly allocated generation
\* current; a soft reload hands the old generation to the new one's
\* onReload and does not delete it, a hard reload hands it nullptr and
\* deletes the old generation.
C30_ReloadKeepsGeneration ==
    [][ /\ root'.constructed =>
            /\ root'.generation # NoGeneration
            /\ root'.gens[root'.generation] = "live"
        /\ (root.constructed /\ rootOp'.op = "reloadGraph") =>
            LET old == root.generation
                new == root'.created
            IN  /\ new \in Generations
                /\ root.gens[new] = "none"
                /\ IF rootOp'.outcome # "shellRoot"
                   THEN /\ root'.generation = old
                        /\ root'.gens[old] = "live"
                        /\ root'.discarded = new
                        /\ root'.gens[new] = "deleted"
                        /\ root'.onReloadArg = NotCalled
                   ELSE /\ root'.generation = new
                        /\ root'.gens[new] = "live"
                        /\ root'.discarded = NoGeneration
                        /\ IF rootOp'.hard
                           THEN /\ root'.onReloadArg = NoGeneration
                                /\ root'.gens[old] = "deleted"
                           ELSE /\ root'.onReloadArg = old
                                /\ root'.gens[old] = "passed"
      ]_vars

\* A failed reload has just left in place a generation that was installed
\* by a reload, after both a soft and a hard reload had succeeded.
C30_Witness ==
    /\ root.constructed
    /\ rootOp.op = "reloadGraph"
    /\ rootOp.outcome # "shellRoot"
    /\ root.discarded = root.allocated
    /\ root.generation > 1
    /\ root.gens[root.generation] = "live"
    /\ \E g \in Generations : root.gens[g] = "passed"
    /\ \E g \in Generations : g < root.generation /\ root.gens[g] = "deleted"

\* ---- qs_main
\* The configuration path and name in force: the option if it is not empty,
\* else the environment variable; the level is 0 for the option, 1 for the
\* variable and UnsetLevel when neither is set.
EffectivePath(in) ==
    IF in.optionConfigPath # "" THEN [value |-> in.optionConfigPath, level |-> 0]
    ELSE IF in.envConfigPath # "" THEN [value |-> in.envConfigPath, level |-> 1]
    ELSE [value |-> "", level |-> UnsetLevel]

EffectiveName(in) ==
    IF in.optionConfigName # "" THEN [value |-> in.optionConfigName, level |-> 0]
    ELSE IF in.envConfigName # "" THEN [value |-> in.envConfigName, level |-> 1]
    ELSE [value |-> "", level |-> UnsetLevel]

\* The lines of a manifest that are neither comments nor blank.
Significant(lines) ==
    SelectSeq(lines, LAMBDA l : l.kind \notin {"comment", "blank"})

\* C31: for every combination of set and unset --path, QS_CONFIG_PATH,
\* --config and QS_CONFIG_NAME, with or without --current: giving both
\* --path and --config is an error.  Otherwise the option of a kind
\* overrides the variable of that kind; the configuration path is the
\* result when it is set and its level (option 0, variable 1) is not above
\* the name's; else a name that is set is resolved, the manifest coming
\* before the base path's directory of that name: a result from the
\* manifest is the target of its first entry for the name, a result from
\* the directory exists in the base path and is given only when no
\* manifest was read, and a readable well-formed manifest with an entry for
\* the name, or an absent default manifest beside a directory of that
\* name, does give a result; with neither path nor name the base path is
\* the result.
C31_ConfigSourceSelection ==
    cfg.out # NoResult =>
        LET in == cfg.in
            out == cfg.out
            p == EffectivePath(in)
            n == EffectiveName(in)
            sig == IF in.manifest.readable THEN Significant(in.manifest.lines)
                   ELSE <<>>
            hits == {i \in 1..Len(sig) : sig[i].key = n.value}
            bad == {i \in 1..Len(sig) : sig[i].kind = "malformed"}
            defaultManifest ==
                in.optionManifestPath = "" /\ in.envManifestPath = ""
        IN  IF in.optionConfigPath # "" /\ in.optionConfigName # ""
            THEN out = Failure("bothOptions")
            ELSE IF p.value # "" /\ p.level <= n.level
            THEN out = Selected("path", p.value)
            ELSE IF n.value # ""
            THEN /\ out.source \notin {"path", "base", "bothOptions"}
                 /\ out.status = "ok" => out.source \in {"manifest", "directory"}
                 /\ out.source = "manifest" =>
                        /\ in.manifest.readable
                        /\ \E i \in hits :
                               /\ out.path = sig[i].target
                               /\ \A j \in hits \cup bad : i <= j
                 /\ out.source = "directory" =>
                        /\ ~in.manifest.readable
                        /\ in.base.kind = "dir"
                        /\ out.path = n.value
                        /\ n.value \in in.base.entries
                 /\ (in.manifest.readable /\ hits # {} /\ bad = {}) =>
                        out.source = "manifest"
                 /\ (~in.manifest.readable /\ defaultManifest
                       /\ in.base.kind = "dir" /\ n.value \in in.base.entries) =>
                        out = Selected("directory", n.value)
            ELSE out = Selected("base", BasePath)

\* Both environment variables are set and no option is: the path is chosen,
\* its level being equal to the name's.
C31_Witness ==
    /\ cfg.out # NoResult
    /\ cfg.in.optionConfigPath = "" /\ cfg.in.optionConfigName = ""
    /\ cfg.in.envConfigPath # "" /\ cfg.in.envConfigName # ""
    /\ cfg.out = Selected("path", cfg.in.envConfigPath)

====
